---- MODULE Spec2Model ----
(***************************************************************************)
(* A model of tiktoken_truncate/tiktoken_truncate.py: truncation of a text *)
(* to the longest prefix whose token count is within a model's budget.     *)
(*                                                                         *)
(* The tokenizer is opaque: a text is represented by its length and by the *)
(* token count of each of its prefixes (tokens[k] = number of tokens of    *)
(* text[:k]); the empty prefix has no tokens.  A string returned by the    *)
(* program is always a prefix of the text and is represented by its        *)
(* length.                                                                 *)
(***************************************************************************)
EXTENDS Integers, Sequences, FiniteSets, TLC

VARIABLES
    entry,                      \* the function the caller invoked
    pc,                         \* position of the control flow
    text_len,                   \* len(text)
    tokens,                     \* tokens[k] = len(encoding.encode(text[:k])), k >= 1
    max_tokens,                 \* the budget
    sample_tokens,              \* len(encoding.encode(random_string(1024)))
    avg_tokens_per_char_cache,  \* the process-wide rate cache (one encoding)
    encoding_cache,             \* the per-call memo: a set of <<length, count>>
    low, high,                  \* the search window / the candidates
    low0, high0,                \* low and high on entry to the running helper
    length,                     \* argument of the last direct cached_encode_length call
    outcome,                    \* "running", "returned" or "AssertionError"
    raised_in,                  \* the function whose check raised ("" if none)
    ret,                        \* the value returned (a length or a token count)
    call_no,                    \* index of the call in progress (calls made, for cached_encode_length)
    first_ret                   \* what the first truncate call returned

vars == <<entry, pc, text_len, tokens, max_tokens, sample_tokens,
          avg_tokens_per_char_cache, encoding_cache, low, high, low0, high0,
          length, outcome, raised_in, ret, call_no, first_ret>>

----------------------------------------------------------------------------
(* Bounds of the model *)

MaxLen == 4          \* texts of up to MaxLen characters carry every token-count function
MaxBudget == 2       \* budgets 1..MaxBudget
LongLen == 24        \* length of the long texts (where the factor 1.1 exceeds +1)
MaxProbes == 3       \* direct calls of cached_encode_length on one memo
MaxNeg == 2          \* most negative length passed to cached_encode_length

(* Program constants *)

SampleLen == 1024

----------------------------------------------------------------------------
(* Helpers *)

Max(a, b) == IF a >= b THEN a ELSE b
Min(a, b) == IF a <= b THEN a ELSE b

\* len(text[:k]) for a Python slice: a negative k counts from the end.
SliceLen(k) == IF k >= 0 THEN Min(k, text_len) ELSE Max(text_len + k, 0)

\* len(encoding.encode(text[:k])) for 0 <= k <= len(text)
Encode(k) == IF k = 0 THEN 0 ELSE tokens[k]

\* int(h * 1.1): the float product floors to (11 h) div 10 for 0 <= h < 200.
IntTimesGrowth(h) == (h * 11) \div 10

\* int(l / 1.1): the float quotient of these multiples of 11 rounds just below
\* the integer, so int() gives one less than (10 l) div 11 (0 <= l < 200).
FloatShort == {33, 55, 66, 99, 110, 121, 132, 198}
IntOverGrowth(l) == IF l \in FloatShort THEN ((l * 10) \div 11) - 1 ELSE (l * 10) \div 11

----------------------------------------------------------------------------
(* estimate_avg_tokens_per_char, get_avg_tokens_per_char: the rate is kept *)
(* as the fraction <<tokens of the sample, length of the sample>>.         *)

estimate_avg_tokens_per_char == <<sample_tokens, SampleLen>>

get_avg_cache(cache) == IF cache = {} THEN {estimate_avg_tokens_per_char} ELSE cache

get_avg_tokens_per_char(cache) == CHOOSE r \in get_avg_cache(cache) : TRUE

\* int(max_tokens / avg_tokens_per_char)
estimated_length(avg) == (max_tokens * avg[2]) \div avg[1]

----------------------------------------------------------------------------
(* cached_encode_length *)

CelRaises(k) == k > text_len

InCache(cache, k) == \E e \in cache : e[1] = k

CelCache(cache, k) ==
    IF InCache(cache, k) THEN cache ELSE cache \cup {<<k, Encode(SliceLen(k))>>}

CelValue(cache, k) == (CHOOSE e \in CelCache(cache, k) : e[1] = k)[2]

----------------------------------------------------------------------------
(* Control-flow helpers *)

\* truncate's finally clause clears the memo on every exit.
Finally(cache) == IF entry = "truncate" THEN {} ELSE cache

Frame == UNCHANGED <<entry, text_len, tokens, max_tokens, sample_tokens, length,
                     call_no, first_ret>>

Raise(fn, cache) ==
    /\ pc' = "done"
    /\ outcome' = "AssertionError"
    /\ raised_in' = fn
    /\ encoding_cache' = Finally(cache)
    /\ UNCHANGED <<low, high, low0, high0, ret, avg_tokens_per_char_cache>>
    /\ Frame

Goto(p, l, h, cache) ==
    /\ pc' = p
    /\ low' = l
    /\ high' = h
    /\ encoding_cache' = cache
    /\ UNCHANGED <<low0, high0, outcome, raised_in, ret, avg_tokens_per_char_cache>>
    /\ Frame

\* the entry function returns to its caller
Done(value, l, h, cache) ==
    /\ pc' = "done"
    /\ outcome' = "returned"
    /\ ret' = value
    /\ low' = l
    /\ high' = h
    /\ encoding_cache' = Finally(cache)
    /\ UNCHANGED <<low0, high0, raised_in, avg_tokens_per_char_cache>>
    /\ Frame

----------------------------------------------------------------------------
(* The inputs *)

Budgets == 1 .. MaxBudget

\* Every token-count function on a text of at most MaxLen characters.  The
\* code only compares counts with the budget b, so counts range over 0..b+1.
SmallTexts(b) == UNION {[1 .. n -> 0 .. (b + 1)] : n \in 0 .. MaxLen}

\* Long texts: within budget, except on the prefix lengths p1 .. p2-1.  With
\* p2 = LongLen+1 the count is non-decreasing, with p1 = p2 the whole text is
\* within budget, otherwise a longer prefix has fewer tokens than a shorter.
LongText(b, p1, p2) ==
    [i \in 1 .. LongLen |-> IF i < p1 THEN 1 ELSE IF i < p2 THEN b + 1 ELSE b]

LongTexts(b) ==
    {LongText(b, p[1], p[2]) :
        p \in {q \in (1 .. LongLen) \X (1 .. (LongLen + 1)) : q[1] <= q[2]}}

Texts(b) == SmallTexts(b) \cup LongTexts(b)

\* Token counts of the 1024-character sample: rates from 2 tokens per
\* character down to 1 token per 21 characters.
SampleTokens == {2048, 1024, 400, 256, 100, 85, 51, 48}

\* Windows of the direct calls of binary_search_max_length.
Windows(n) ==
    IF n <= MaxLen
    THEN (0 .. (n + 1)) \X (0 .. (n + 1))
    ELSE {0, 1} \X ((n - 1) .. (n + 1))

CelLengths == (0 - MaxNeg) .. (text_len + 1)

InitCommon ==
    /\ pc = entry
    /\ avg_tokens_per_char_cache = {}
    /\ encoding_cache = {}
    /\ length = 0
    /\ outcome = "running"
    /\ raised_in = ""
    /\ ret = 0
    /\ first_ret = 0

Init ==
    /\ max_tokens \in Budgets
    /\ \/ /\ entry = "truncate"
          /\ tokens \in Texts(max_tokens)
          /\ sample_tokens \in SampleTokens
          /\ low = 0 /\ high = 0 /\ call_no = 1
       \/ /\ entry = "expand_high"
          /\ tokens \in Texts(max_tokens)
          /\ sample_tokens = SampleLen
          /\ high \in 0 .. (Len(tokens) + 1)
          /\ low = 0 /\ call_no = 1
       \/ /\ entry = "expand_low"
          /\ tokens \in Texts(max_tokens)
          /\ sample_tokens = SampleLen
          /\ low \in 0 .. (Len(tokens) + 1)
          /\ high = 0 /\ call_no = 1
       \/ /\ entry = "binary_search"
          /\ tokens \in Texts(max_tokens)
          /\ sample_tokens = SampleLen
          /\ \E w \in Windows(Len(tokens)) : low = w[1] /\ high = w[2]
          /\ call_no = 1
       \/ /\ entry = "cached_encode_length"
          /\ max_tokens = 1
          /\ tokens \in SmallTexts(max_tokens)
          /\ sample_tokens = SampleLen
          /\ low = 0 /\ high = 0 /\ call_no = 0
    /\ text_len = Len(tokens)
    /\ low0 = low
    /\ high0 = high
    /\ InitCommon

----------------------------------------------------------------------------
(* expand_high *)

\* the loop condition with < for <=
ExpandHighContinuesStrict(c) == c < max_tokens

ExpandHighContinues(c) == c <= max_tokens

\* the growth step without the guaranteed advance of one character
NextHighTimesOnly(h) == IntTimesGrowth(h)

NextHigh(h) == Max(IntTimesGrowth(h), h + 1)

ExpandHighBreaks(h) == h >= text_len

\* the break without the clamp to len(text)
ClampHighMissing(h) == h

ClampHigh(h) == text_len

\* truncate, after expand_high: the whole text is returned when high == len(text)
ReturnsWholeText(h) == h = text_len

ExpandHighReturn(h, cache) ==
    IF entry = "expand_high"
    THEN Done(h, low, h, cache)
    ELSE IF ReturnsWholeText(h)
         THEN Done(text_len, low, h, cache)
         ELSE Goto("expand_low", low, h, cache)

\* one evaluation of the loop condition and, if it holds, of the loop body
ExpandHighStep ==
    /\ pc = "expand_high"
    /\ IF CelRaises(high)
       THEN Raise("cached_encode_length", encoding_cache)
       ELSE LET c == CelValue(encoding_cache, high)
                cache2 == CelCache(encoding_cache, high)
            IN  IF ExpandHighContinues(c)
                THEN LET h2 == NextHigh(high)
                     IN  IF ExpandHighBreaks(h2)
                         THEN ExpandHighReturn(ClampHigh(h2), cache2)
                         ELSE Goto("expand_high", low, h2, cache2)
                ELSE ExpandHighReturn(high, cache2)

----------------------------------------------------------------------------
(* expand_low *)

ExpandLowContinues(c) == c > max_tokens

NextLow(l) == Min(IntOverGrowth(l), l - 1)

ExpandLowRejects(l) == l <= 0 \/ l > text_len

ExpandLowReturn(l, cache) ==
    IF entry = "expand_low"
    THEN Done(l, l, high, cache)
    ELSE Goto("high_check", l, high, cache)

\* one evaluation of the loop condition, then the loop body or the checks
\* that follow the loop
ExpandLowStep ==
    /\ pc = "expand_low"
    /\ IF CelRaises(low)
       THEN Raise("cached_encode_length", encoding_cache)
       ELSE LET c == CelValue(encoding_cache, low)
                cache2 == CelCache(encoding_cache, low)
            IN  IF ExpandLowContinues(c)
                THEN Goto("expand_low", NextLow(low), high, cache2)
                ELSE IF ExpandLowRejects(low)
                     THEN Raise("expand_low", cache2)
                     ELSE ExpandLowReturn(low, cache2)

----------------------------------------------------------------------------
(* binary_search_max_length *)

\* the lower midpoint
BsMidLower(l, h) == (l + h) \div 2

BsMid(l, h) == (l + h + 1) \div 2

\* the comparison of the midpoint's count with < for <=
BsWithinStrict(mid_tokens) == mid_tokens < max_tokens

BsWithin(mid_tokens) == mid_tokens <= max_tokens

\* the value binary_search_max_length returns reaches its caller; truncate
\* returns text[:max_length]
BsReturn(value, l, h, cache) ==
    IF entry = "binary_search"
    THEN Done(value, l, h, cache)
    ELSE Done(SliceLen(value), l, h, cache)

\* the two checks before the loop
BinarySearchPre ==
    /\ pc = "binary_search"
    /\ IF CelRaises(high)
       THEN Raise("cached_encode_length", encoding_cache)
       ELSE LET cache2 == CelCache(encoding_cache, high)
            IN  IF CelValue(encoding_cache, high) <= max_tokens
                THEN Raise("binary_search", cache2)
                ELSE IF CelRaises(low)
                     THEN Raise("cached_encode_length", cache2)
                     ELSE LET cache3 == CelCache(cache2, low)
                          IN  IF CelValue(cache2, low) > max_tokens
                              THEN Raise("binary_search", cache3)
                              ELSE Goto("binary_search_loop", low, high, cache3)

\* one iteration of the while loop
BinarySearchStep ==
    /\ pc = "binary_search_loop"
    /\ low < high
    /\ LET mid == BsMid(low, high)
       IN  IF CelRaises(mid)
           THEN Raise("cached_encode_length", encoding_cache)
           ELSE LET mid_tokens == CelValue(encoding_cache, mid)
                    cache2 == CelCache(encoding_cache, mid)
                IN  IF BsWithin(mid_tokens)
                    THEN IF mid < low
                         THEN Raise("binary_search", cache2)
                         ELSE IF mid = low
                              THEN IF mid + 1 > high
                                   THEN Raise("binary_search", cache2)
                                   ELSE Goto("binary_search_loop", mid + 1, high, cache2)
                              ELSE IF mid > high
                                   THEN Raise("binary_search", cache2)
                                   ELSE Goto("binary_search_loop", mid, high, cache2)
                    ELSE IF mid > high
                         THEN Raise("binary_search", cache2)
                         ELSE IF mid = high
                              THEN IF mid_tokens = max_tokens
                                   THEN BsReturn(mid, low, high, cache2)
                                   ELSE IF mid_tokens <= max_tokens
                                        THEN Raise("binary_search", cache2)
                                        ELSE Goto("binary_search_loop", low, mid - 1, cache2)
                              ELSE Goto("binary_search_loop", low, mid, cache2)

\* the loop has ended: the two checks after it, and the return
BinarySearchPost ==
    /\ pc = "binary_search_loop"
    /\ ~(low < high)
    /\ IF low # high
       THEN Raise("binary_search", encoding_cache)
       ELSE IF CelRaises(low)
            THEN Raise("cached_encode_length", encoding_cache)
            ELSE LET cache2 == CelCache(encoding_cache, low)
                 IN  IF CelValue(encoding_cache, low) > max_tokens
                     THEN Raise("binary_search", cache2)
                     ELSE BsReturn(low, low, high, cache2)

----------------------------------------------------------------------------
(* truncate_document_to_max_tokens *)

FastPath(est) == est >= text_len

\* from the call to the call of expand_high
TruncateStart ==
    /\ pc = "truncate"
    /\ LET avg == get_avg_tokens_per_char(avg_tokens_per_char_cache)
           est == estimated_length(avg)
           cache2 == CelCache({}, text_len)
       IN  /\ avg_tokens_per_char_cache' = get_avg_cache(avg_tokens_per_char_cache)
           /\ IF FastPath(est) /\ CelValue({}, text_len) <= max_tokens
              THEN /\ pc' = "done"
                   /\ outcome' = "returned"
                   /\ ret' = text_len
                   /\ encoding_cache' = Finally(cache2)
                   /\ UNCHANGED <<low, high, low0, high0>>
              ELSE LET h == IF FastPath(est) THEN text_len ELSE est
                   IN  /\ pc' = "expand_high"
                       /\ high' = h
                       /\ low' = h
                       /\ high0' = h
                       /\ low0' = h
                       /\ encoding_cache' = IF FastPath(est) THEN cache2 ELSE {}
                       /\ UNCHANGED <<outcome, ret>>
    /\ UNCHANGED raised_in
    /\ Frame

\* after expand_low: the check of the high bound, then the call of
\* binary_search_max_length
TruncateHighCheck ==
    /\ pc = "high_check"
    /\ IF CelRaises(high)
       THEN Raise("cached_encode_length", encoding_cache)
       ELSE LET cache2 == CelCache(encoding_cache, high)
            IN  IF CelValue(encoding_cache, high) <= max_tokens
                THEN Raise("truncate", cache2)
                ELSE /\ pc' = "binary_search"
                     /\ low0' = low
                     /\ high0' = high
                     /\ encoding_cache' = cache2
                     /\ UNCHANGED <<low, high, outcome, raised_in, ret,
                                    avg_tokens_per_char_cache>>
                     /\ Frame

\* truncate(truncate(text, model), model): the caller passes the returned
\* string to a second call, in the same process
TruncateAgain ==
    /\ pc = "done"
    /\ entry = "truncate"
    /\ outcome = "returned"
    /\ call_no = 1
    /\ pc' = "truncate"
    /\ call_no' = 2
    /\ first_ret' = ret
    /\ text_len' = ret
    /\ outcome' = "running"
    /\ encoding_cache' = {}
    /\ low' = 0 /\ high' = 0 /\ low0' = 0 /\ high0' = 0 /\ ret' = 0
    /\ UNCHANGED <<entry, tokens, max_tokens, sample_tokens, length, raised_in,
                   avg_tokens_per_char_cache>>

----------------------------------------------------------------------------
(* direct calls of cached_encode_length on one memo *)

CachedEncodeLengthCall ==
    /\ pc = "cached_encode_length"
    /\ call_no < MaxProbes
    /\ \E k \in CelLengths :
        /\ length' = k
        /\ IF CelRaises(k)
           THEN /\ outcome' = "AssertionError"
                /\ raised_in' = "cached_encode_length"
                /\ UNCHANGED <<encoding_cache, ret>>
           ELSE /\ outcome' = "returned"
                /\ raised_in' = ""
                /\ encoding_cache' = CelCache(encoding_cache, k)
                /\ ret' = CelValue(encoding_cache, k)
    /\ call_no' = call_no + 1
    /\ UNCHANGED <<entry, pc, text_len, tokens, max_tokens, sample_tokens,
                   avg_tokens_per_char_cache, low, high, low0, high0, first_ret>>

----------------------------------------------------------------------------

Next ==
    \/ TruncateStart
    \/ ExpandHighStep
    \/ ExpandLowStep
    \/ TruncateHighCheck
    \/ BinarySearchPre
    \/ BinarySearchStep
    \/ BinarySearchPost
    \/ TruncateAgain
    \/ CachedEncodeLengthCall

Spec == Init /\ [][Next]_vars

\* The code is sequential and synchronous: a call that has started keeps
\* executing until it returns or raises.  (The caller need not call again.)
ProgramStep ==
    \/ TruncateStart
    \/ ExpandHighStep
    \/ ExpandLowStep
    \/ TruncateHighCheck
    \/ BinarySearchPre
    \/ BinarySearchStep
    \/ BinarySearchPost

FairSpec == Spec /\ WF_vars(ProgramStep)

----------------------------------------------------------------------------
(* The reference the optimized truncation is compared with: a linear scan   *)
(* for the largest prefix length whose token count is within the budget.    *)

RefLength ==
    CHOOSE L \in 0 .. text_len :
        /\ Encode(L) <= max_tokens
        /\ \A M \in 0 .. text_len : Encode(M) <= max_tokens => M <= L

----------------------------------------------------------------------------
(* Vocabulary of the properties *)

\* the token count never decreases as the prefix grows
Monotone == \A i \in 1 .. (Len(tokens) - 1) : tokens[i] <= tokens[i + 1]

TruncateDone == entry = "truncate" /\ pc = "done"

TruncateReturned == TruncateDone /\ outcome = "returned"

\* the precondition of binary_search_max_length, on the window it was entered with
BsPre ==
    /\ 0 <= low0 /\ low0 < high0 /\ high0 <= text_len
    /\ Encode(low0) <= max_tokens /\ max_tokens < Encode(high0)

----------------------------------------------------------------------------
\* C1: whenever truncate_document_to_max_tokens returns a string, the token
\* count of that string is at most the budget.
C1_WithinBudget == TruncateReturned => Encode(ret) <= max_tokens

\* C2: on a non-decreasing token count, truncate_document_to_max_tokens
\* returns (and does not raise) the same prefix as the reference linear scan.
C2_SameAsReference ==
    (TruncateDone /\ Monotone) => (outcome = "returned" /\ ret = RefLength)

\* C3: on a non-decreasing token count, a text within budget is returned
\* whole, on the fast path and through expand_high alike.
C3_FullTextKept ==
    (TruncateDone /\ Monotone /\ Encode(text_len) <= max_tokens)
        => (outcome = "returned" /\ ret = text_len)

\* a text within budget, longer than the guess, came back whole through expand_high
C3_Witness ==
    /\ TruncateReturned /\ call_no = 1 /\ Monotone
    /\ Encode(text_len) <= max_tokens
    /\ 1 <= high0 /\ high0 < text_len /\ high = text_len
    /\ ret = text_len

\* C4: maximality: a returned prefix shorter than the text cannot be extended
\* by one character within budget.
C4_Maximal ==
    (TruncateReturned /\ ret < text_len) => Encode(ret + 1) > max_tokens

\* binary search returned a proper non-empty prefix of a text whose token
\* count is not monotonic
C4_Witness ==
    /\ TruncateReturned /\ call_no = 1 /\ ~Monotone
    /\ 1 <= ret /\ ret < text_len
    /\ high0 - low0 >= 2

\* C5: idempotence on a non-decreasing token count: truncating the returned
\* string again returns it unchanged.
C5_Idempotent ==
    (TruncateDone /\ call_no = 2 /\ Monotone)
        => (outcome = "returned" /\ ret = first_ret)

\* the second call returned a properly truncated text unchanged, after expanding
C5_Witness ==
    /\ TruncateReturned /\ call_no = 2 /\ Monotone
    /\ 1 <= first_ret /\ first_ret < Len(tokens)
    /\ 1 <= high0 /\ high0 < text_len
    /\ ret = first_ret

\* C6: in binary_search_max_length, count_at(low) <= budget < count_at(high)
\* holds on loop entry and after every iteration, the last one included.
C6_WindowInvariant ==
    (pc = "binary_search_loop" /\ low0 <= high0)
        => (Encode(low) <= max_tokens /\ max_tokens < Encode(high))

\* C6 as amended: the invariant holds on loop entry and after every iteration
\* but the last; the last iteration sets high = mid - 1 = low, and then
\* count_at(low) <= budget < count_at(low + 1).
C6_WindowInvariantAmended ==
    (pc = "binary_search_loop" /\ low0 <= high0)
        => IF low < high
           THEN Encode(low) <= max_tokens /\ max_tokens < Encode(high)
           ELSE /\ low = high
                /\ Encode(low) <= max_tokens
                /\ max_tokens < Encode(low + 1)

\* the loop of a direct call has ended after at least two iterations
C6_Witness ==
    /\ entry = "binary_search" /\ pc = "binary_search_loop"
    /\ low = high /\ low0 < low /\ low + 1 < high0

\* the states of a call of binary_search_max_length whose precondition holds
C7_Inv ==
    BsPre =>
        /\ raised_in # "binary_search"
        /\ pc = "binary_search_loop" => low <= high
        /\ entry = "binary_search" =>
              /\ outcome # "AssertionError"
              /\ pc = "done" =>
                    /\ low = high
                    /\ low0 <= ret /\ ret < high0
                    /\ Encode(ret) <= max_tokens

\* an iteration that stays in the loop
C7_Step ==
    (pc = "binary_search_loop" /\ pc' = "binary_search_loop")
        => (high' - low' < high - low)

\* C7: called with 0 <= low < high <= len(text) and
\* count_at(low) <= budget < count_at(high), every iteration strictly shrinks
\* high - low, no AssertionError is raised, the call terminates, the loop ends
\* with low == high and the returned length L has low0 <= L < high0 and
\* count_at(L) <= budget.
C7_BinarySearch ==
    /\ [](C7_Inv)
    /\ [][C7_Step]_vars
    /\ (entry = "binary_search" /\ BsPre) ~> (pc = "done")

\* a direct call on a non-monotonic token count returned after three iterations or more
C7_Witness ==
    /\ entry = "binary_search" /\ pc = "done" /\ outcome = "returned"
    /\ BsPre /\ ~Monotone
    /\ high0 - low0 >= 5

\* the states of a direct call of expand_high with 0 <= start <= len(text)
C8_Inv ==
    (entry = "expand_high" /\ 0 <= high0 /\ high0 <= text_len) =>
        /\ outcome # "AssertionError"
        /\ \A e \in encoding_cache : 0 <= e[1] /\ e[1] <= text_len
        /\ pc = "done" =>
              /\ high0 <= ret /\ ret <= text_len
              /\ Encode(ret) > max_tokens \/ ret = text_len
              /\ (ret = text_len /\ high0 < text_len)
                    => ~InCache(encoding_cache, text_len)

\* an iteration that stays in the loop
C8_Step ==
    (pc = "expand_high" /\ pc' = "expand_high")
        => /\ high' >= high + 1
           /\ high' = (IF (11 * high) \div 10 >= high + 1
                       THEN (11 * high) \div 10 ELSE high + 1)
           /\ high' < text_len

\* C8: expand_high from 0 <= start <= len(text) terminates: every iteration raises the
\* candidate by max(floor(1.1 * old), old + 1) - old >= 1, no length above
\* len(text) is probed, the result h has start <= h <= len(text) and
\* count_at(h) > budget or h == len(text), and a clamped candidate is
\* returned without its token count being looked at.
C8_ExpandHigh ==
    /\ [](C8_Inv)
    /\ [][C8_Step]_vars
    /\ (entry = "expand_high" /\ 0 <= high0 /\ high0 <= text_len) ~> (pc = "done")

\* a direct call on a long text went from 20 to 22 and was clamped at the end
C8_Witness ==
    /\ entry = "expand_high" /\ pc = "done" /\ outcome = "returned"
    /\ high0 <= 20 /\ InCache(encoding_cache, 20) /\ InCache(encoding_cache, 22)
    /\ ~InCache(encoding_cache, 21)
    /\ ret = text_len /\ ~InCache(encoding_cache, text_len)

\* C9: expand_low from 0 <= start <= len(text) returns, without raising, a
\* length low with 0 <= low <= start and count_at(low) <= budget; hence
\* truncate, once expand_high has produced a high < len(text) over budget,
\* reaches binary_search_max_length with count_at(low) <= budget <
\* count_at(high) and does not abort.
C9_ExpandLow ==
    /\ (entry = "expand_low" /\ 0 <= low0 /\ low0 <= text_len /\ pc = "done") =>
          /\ outcome = "returned"
          /\ 0 <= ret /\ ret <= low0
          /\ Encode(ret) <= max_tokens
    /\ entry = "truncate" =>
          /\ raised_in \notin {"expand_low", "truncate", "cached_encode_length"}
          /\ pc = "binary_search" =>
                (Encode(low) <= max_tokens /\ max_tokens < Encode(high))

\* one direct call of cached_encode_length
C10_Step ==
    (pc = "cached_encode_length" /\ call_no' = call_no + 1) =>
        /\ (length' < 0 \/ length' > text_len) =>
              (outcome' = "AssertionError" /\ encoding_cache' = encoding_cache)
        /\ (0 <= length' /\ length' <= text_len) =>
              /\ outcome' = "returned"
              /\ ret' = Encode(length')
              /\ encoding_cache' = encoding_cache \cup {<<length', Encode(length')>>}
        /\ encoding_cache \subseteq encoding_cache'

\* C10: cached_encode_length raises for every length below 0 or above
\* len(text), without calling the tokenizer or touching the memo; inside the
\* range a hit returns the memoized count and leaves the memo alone, a miss
\* records count_tokens(text[:length]); a recorded value never changes.
C10_CachedEncodeLength == [][C10_Step]_vars

====
